---- MODULE Spec2Model ----
(***************************************************************************)
(* Model of pkg/awsclient/client.go: the credential resolver GetAWSClient, *)
(* the constructor NewClient with its writes to the process environment,   *)
(* and the passthrough methods of AwsClient.                               *)
(*                                                                         *)
(* A goroutine calling GetAWSClient is a process; its position in the code *)
(* is pc.  The steps are cut at the calls that leave the goroutine: the    *)
(* kube client's Get, each os.Setenv and session.NewSession.               *)
(***************************************************************************)
EXTENDS Naturals, Sequences, FiniteSets, TLC

\* ------------------------------------------------------------ bounds

\* Number of distinct non-empty credential strings in play.
NumCreds == 2

\* Number of GetAWSClient calls a goroutine makes in a sequential run.
MaxCalls == 2

\* ------------------------------------------------------------ values

awsCredsSecretIDKey == "aws_access_key_id"

awsCredsSecretAccessKey == "aws_secret_access_key"

CredPool == <<"cred1", "cred2", "cred3", "cred4">>

\* Strings used as access keys and secret keys; "" is Go's empty string.
Creds == {""} \cup {CredPool[i] : i \in 1..NumCreds}

Tokens == {"", "token"}

Regions == {"", "us-east-1"}

SecretNames == {"", "x"}

NameSpaces == {"", "y"}

NewAwsClientInput ==
    [AwsCredsSecretIDKey : Creds, AwsCredsSecretAccessKey : Creds,
     AwsToken : Tokens, AwsRegion : Regions,
     SecretName : SecretNames, NameSpace : NameSpaces]

Procs == {"g1", "g2"}

\* The inline credentials a goroutine of the concurrent run passes: each
\* goroutine has a pair of its own, different in both parts from the other's.
OwnKey(p) == IF p = "g1" THEN CredPool[1] ELSE CredPool[2]

OwnSecret(p) == IF p = "g1" THEN CredPool[2] ELSE CredPool[1]

\* The inputs a goroutine may pass: any input in a sequential run, any input
\* with its own inline pair in a concurrent run.
InputsOf(kind, p) ==
    IF kind = "any" THEN NewAwsClientInput
    ELSE {in \in NewAwsClientInput :
            /\ in.AwsCredsSecretIDKey = OwnKey(p)
            /\ in.AwsCredsSecretAccessKey = OwnSecret(p)}

\* An error value: what was formatted into it.
Err(kind, secret, key) == [kind |-> kind, secret |-> secret, key |-> key]

NilErr == Err("nil", "", "")

NilClient == [nil |-> TRUE]

\* corev1.Secret.Data: a map from field names to byte strings.
SecretData ==
    UNION {[S -> Creds] : S \in SUBSET {awsCredsSecretIDKey, awsCredsSecretAccessKey}}

NoData == [k \in {} |-> ""]

KubeGetErr == Err("KubeGetError", "", "")

\* What kubeClient.Get answers: an error, or the secret as it is stored.
KubeResponse(failed, data) ==
    IF failed THEN [err |-> KubeGetErr, Data |-> NoData]
    ELSE [err |-> NilErr, Data |-> data]

NoResponse == [err |-> NilErr, Data |-> NoData]

\* os environment: a variable is unset, or holds a string.
Unset == "<unset>"

EnvNames == {"AWS_ACCESS_KEY_ID", "AWS_SECRET_ACCESS_KEY"}

InitialEnvs == [EnvNames -> {Unset, "ambient"}]

NoEnv == [n \in EnvNames |-> "<none>"]

NoCredentials == [static |-> FALSE, id |-> "", secret |-> "", token |-> ""]

\* credentials.NewStaticCredentials(id, secret, token)
NewStaticCredentials(id, secret, token) ==
    [static |-> TRUE, id |-> id, secret |-> secret, token |-> token]

NoInput ==
    [AwsCredsSecretIDKey |-> "", AwsCredsSecretAccessKey |-> "", AwsToken |-> "",
     AwsRegion |-> "", SecretName |-> "", NameSpace |-> ""]

NoArgs == [accessID |-> "", accessSecret |-> "", token |-> "", region |-> ""]

NoConfig == [Region |-> "", Credentials |-> NoCredentials]

NoTrace == [lookups |-> 0, newClients |-> 0, setenvs |-> 0, sessions |-> 0]

Pending == [client |-> NilClient, err |-> NilErr]

\* The four handles NewClient builds from one session.
AwsClientOf(s) ==
    [ec2Client     |-> [api |-> "ec2", session |-> s],
     elbClient     |-> [api |-> "elb", session |-> s],
     elbv2Client   |-> [api |-> "elbv2", session |-> s],
     route53Client |-> [api |-> "route53", session |-> s]]

VARIABLES
    inputs,         \* which inputs goroutine p passes: "any" or "own"
    callsLeft,      \* calls goroutine p may still make
    pc,             \* position of goroutine p
    input,          \* the input of p's call
    secret,         \* what kubeClient.Get answered
    args,           \* the arguments of NewClient
    awsConfig,      \* NewClient's awsConfig
    ret,            \* (client, err) returned by GetAWSClient
    trace,          \* calls p's current GetAWSClient has made
    envAtStart,     \* the environment when p's call began
    envAtSession,   \* the environment when p's session.NewSession ran
    env,            \* the process environment
    stored,         \* Data of the secret stored in the cluster
    facade,         \* an AwsClient in use
    invoked,        \* the last facade method invoked, with its input
    requests,       \* remote requests issued by that invocation
    response,       \* what the remote API answered to the last request
    result          \* what the facade method returned

resolverVars ==
    <<inputs, callsLeft, pc, input, secret, args, awsConfig, ret,
      trace, envAtStart, envAtSession, env, stored>>

facadeVars == <<facade, invoked, requests, response, result>>

vars == <<resolverVars, facadeVars>>

\* ------------------------------------------------- GetAWSClient's tests

\* Mutant: the region test is left out.
RegionMissing_Never(in) == FALSE

RegionMissing(in) == in.AwsRegion = ""

\* Mutant: || for &&.
HasSecretRef_Either(in) == in.SecretName # "" \/ in.NameSpace # ""

HasSecretRef(in) == in.SecretName # "" /\ in.NameSpace # ""

\* Mutant: == for != on the secret.
InlineInconsistent_BothEmpty(in) ==
    in.AwsCredsSecretIDKey = "" /\ in.AwsCredsSecretAccessKey = ""

InlineInconsistent(in) ==
    in.AwsCredsSecretIDKey = "" /\ in.AwsCredsSecretAccessKey # ""

NoRegionErr(in) == Err("getAWSClient:NoRegion", "", in.AwsRegion)

NoAwsCredentialsErr(in) == Err("getAWSClient: NoAwsCredentials or Secret", "", "")

MissingIDKeyErr(in) ==
    Err("AWS credentials secret did not contain key", in.SecretName, awsCredsSecretIDKey)

\* Mutant: the second error names the first key.
MissingAccessKeyErr_IDKey(in) ==
    Err("AWS credentials secret did not contain key", in.SecretName, awsCredsSecretIDKey)

MissingAccessKeyErr(in) ==
    Err("AWS credentials secret did not contain key", in.SecretName, awsCredsSecretAccessKey)

\* string(b) of a []byte copies the bytes.
String(b) == b

\* Mutant: the inline keys are passed on although the secret was read.
SecretArgs_Inline(in, data) ==
    [accessID |-> in.AwsCredsSecretIDKey,
     accessSecret |-> in.AwsCredsSecretAccessKey,
     token |-> in.AwsToken, region |-> in.AwsRegion]

SecretArgs(in, data) ==
    [accessID |-> String(data[awsCredsSecretIDKey]),
     accessSecret |-> String(data[awsCredsSecretAccessKey]),
     token |-> in.AwsToken, region |-> in.AwsRegion]

\* Mutant: the token is not passed on.
InlineArgs_NoToken(in) ==
    [accessID |-> in.AwsCredsSecretIDKey,
     accessSecret |-> in.AwsCredsSecretAccessKey,
     token |-> "", region |-> in.AwsRegion]

InlineArgs(in) ==
    [accessID |-> in.AwsCredsSecretIDKey,
     accessSecret |-> in.AwsCredsSecretAccessKey,
     token |-> in.AwsToken, region |-> in.AwsRegion]

\* Where GetAWSClient goes from its entry: [pc, ret, args].
Entry(in) ==
    IF RegionMissing(in)
    THEN [pc |-> "done", ret |-> [client |-> NilClient, err |-> NoRegionErr(in)],
          args |-> NoArgs]
    ELSE IF HasSecretRef(in)
    THEN [pc |-> "kubeGet", ret |-> Pending, args |-> NoArgs]
    ELSE IF InlineInconsistent(in)
    THEN [pc |-> "done",
          ret |-> [client |-> NilClient, err |-> NoAwsCredentialsErr(in)],
          args |-> NoArgs]
    ELSE [pc |-> "NewClient", ret |-> Pending, args |-> InlineArgs(in)]

\* Mutant: a failed Get falls back to the inline credentials.
AfterGet_FallBack(in, resp) ==
    IF resp.err # NilErr
    THEN [pc |-> "NewClient", ret |-> Pending, args |-> InlineArgs(in)]
    ELSE IF awsCredsSecretIDKey \notin DOMAIN resp.Data
    THEN [pc |-> "done", ret |-> [client |-> NilClient, err |-> MissingIDKeyErr(in)],
          args |-> NoArgs]
    ELSE IF awsCredsSecretAccessKey \notin DOMAIN resp.Data
    THEN [pc |-> "done",
          ret |-> [client |-> NilClient, err |-> MissingAccessKeyErr(in)],
          args |-> NoArgs]
    ELSE [pc |-> "NewClient", ret |-> Pending, args |-> SecretArgs(in, resp.Data)]

\* Where GetAWSClient goes once kubeClient.Get has answered: [pc, ret, args].
AfterGet(in, resp) ==
    IF resp.err # NilErr
    THEN [pc |-> "done", ret |-> [client |-> NilClient, err |-> resp.err],
          args |-> NoArgs]
    ELSE IF awsCredsSecretIDKey \notin DOMAIN resp.Data
    THEN [pc |-> "done", ret |-> [client |-> NilClient, err |-> MissingIDKeyErr(in)],
          args |-> NoArgs]
    ELSE IF awsCredsSecretAccessKey \notin DOMAIN resp.Data
    THEN [pc |-> "done",
          ret |-> [client |-> NilClient, err |-> MissingAccessKeyErr(in)],
          args |-> NoArgs]
    ELSE [pc |-> "NewClient", ret |-> Pending, args |-> SecretArgs(in, resp.Data)]

\* Mutant: the environment is written whatever the token.
UsesEnvironment_Always(token) == TRUE

\* Mutant: the test of the token is inverted.
UsesEnvironment_Inverted(token) == token # ""

\* NewClient's test of the token: TRUE when the environment is written.
UsesEnvironment(token) == token = ""

\* ------------------------------------------------------------ actions

\* GetAWSClient is called: the tests before any call is made.
GetAWSClient(p) ==
    /\ pc[p] = "idle"
    /\ callsLeft[p] > 0
    /\ \E in \in InputsOf(inputs[p], p) :
        LET to == Entry(in) IN
        /\ input' = [input EXCEPT ![p] = in]
        /\ pc' = [pc EXCEPT ![p] = to.pc]
        /\ ret' = [ret EXCEPT ![p] = to.ret]
        /\ args' = [args EXCEPT ![p] = to.args]
    /\ callsLeft' = [callsLeft EXCEPT ![p] = @ - 1]
    /\ secret' = [secret EXCEPT ![p] = NoResponse]
    /\ awsConfig' = [awsConfig EXCEPT ![p] = NoConfig]
    /\ trace' = [trace EXCEPT ![p] = NoTrace]
    /\ envAtStart' = [envAtStart EXCEPT ![p] = env]
    /\ envAtSession' = [envAtSession EXCEPT ![p] = NoEnv]
    /\ UNCHANGED <<inputs, env, stored, facadeVars>>

\* kubeClient.Get answers, and the two fields are read from the secret.
KubeGet(p) ==
    /\ pc[p] = "kubeGet"
    /\ \E failed \in BOOLEAN :
        LET resp == KubeResponse(failed, stored)
            to == AfterGet(input[p], resp)
        IN
        /\ secret' = [secret EXCEPT ![p] = resp]
        /\ pc' = [pc EXCEPT ![p] = to.pc]
        /\ ret' = [ret EXCEPT ![p] = to.ret]
        /\ args' = [args EXCEPT ![p] = to.args]
    /\ trace' = [trace EXCEPT ![p].lookups = @ + 1]
    /\ UNCHANGED <<inputs, callsLeft, input, awsConfig, envAtStart,
                   envAtSession, env, stored, facadeVars>>

\* NewClient is entered: awsConfig is built and the token tested.
NewClient(p) ==
    /\ pc[p] = "NewClient"
    /\ trace' = [trace EXCEPT ![p].newClients = @ + 1]
    /\ IF UsesEnvironment(args[p].token)
       THEN /\ awsConfig' = [awsConfig EXCEPT ![p] =
                    [Region |-> args[p].region, Credentials |-> NoCredentials]]
            /\ pc' = [pc EXCEPT ![p] = "SetenvID"]
       ELSE /\ awsConfig' = [awsConfig EXCEPT ![p] =
                    [Region |-> args[p].region,
                     Credentials |-> NewStaticCredentials(args[p].accessID,
                                        args[p].accessSecret, args[p].token)]]
            /\ pc' = [pc EXCEPT ![p] = "NewSession"]
    /\ UNCHANGED <<inputs, callsLeft, input, secret, args, ret,
                   envAtStart, envAtSession, env, stored, facadeVars>>

\* os.Setenv("AWS_ACCESS_KEY_ID", accessID)
SetenvAccessKeyID(p) ==
    /\ pc[p] = "SetenvID"
    /\ env' = [env EXCEPT !["AWS_ACCESS_KEY_ID"] = args[p].accessID]
    /\ trace' = [trace EXCEPT ![p].setenvs = @ + 1]
    /\ pc' = [pc EXCEPT ![p] = "SetenvSecret"]
    /\ UNCHANGED <<inputs, callsLeft, input, secret, args, awsConfig,
                   ret, envAtStart, envAtSession, stored, facadeVars>>

\* os.Setenv("AWS_SECRET_ACCESS_KEY", accessSecret)
SetenvSecretAccessKey(p) ==
    /\ pc[p] = "SetenvSecret"
    /\ env' = [env EXCEPT !["AWS_SECRET_ACCESS_KEY"] = args[p].accessSecret]
    /\ trace' = [trace EXCEPT ![p].setenvs = @ + 1]
    /\ pc' = [pc EXCEPT ![p] = "NewSession"]
    /\ UNCHANGED <<inputs, callsLeft, input, secret, args, awsConfig,
                   ret, envAtStart, envAtSession, stored, facadeVars>>

\* session.NewSession(awsConfig) answers; the four handles are built from
\* the session, or its error is returned.
NewSession(p) ==
    /\ pc[p] = "NewSession"
    /\ trace' = [trace EXCEPT ![p].sessions = @ + 1]
    /\ envAtSession' = [envAtSession EXCEPT ![p] = env]
    /\ \E ok \in BOOLEAN :
        ret' = [ret EXCEPT ![p] =
                  IF ok
                  THEN [client |-> AwsClientOf(awsConfig[p]), err |-> NilErr]
                  ELSE [client |-> NilClient,
                        err |-> Err("NewSessionError", "", "")]]
    /\ pc' = [pc EXCEPT ![p] = "done"]
    /\ UNCHANGED <<inputs, callsLeft, input, secret, args, awsConfig,
                   envAtStart, env, stored, facadeVars>>

\* GetAWSClient's return statement hands (client, err) to the caller: the
\* call's frame is gone and the goroutine may call again.
Return(p) ==
    /\ pc[p] = "done"
    /\ pc' = [pc EXCEPT ![p] = "idle"]
    /\ input' = [input EXCEPT ![p] = NoInput]
    /\ secret' = [secret EXCEPT ![p] = NoResponse]
    /\ args' = [args EXCEPT ![p] = NoArgs]
    /\ awsConfig' = [awsConfig EXCEPT ![p] = NoConfig]
    /\ ret' = [ret EXCEPT ![p] = Pending]
    /\ trace' = [trace EXCEPT ![p] = NoTrace]
    /\ envAtStart' = [envAtStart EXCEPT ![p] = NoEnv]
    /\ envAtSession' = [envAtSession EXCEPT ![p] = NoEnv]
    /\ UNCHANGED <<inputs, callsLeft, env, stored, facadeVars>>

\* ------------------------------------------------------------ facade

\* The methods of AwsClient.
Methods ==
    {"ApplySecurityGroupsToLoadBalancer", "ConfigureHealthCheck",
     "CreateLoadBalancer", "CreateLoadBalancerListeners",
     "DeleteLoadBalancerListeners", "DeregisterInstancesFromLoadBalancer",
     "DescribeLoadBalancers", "DescribeLoadBalancersV2", "DeleteLoadBalancerV2",
     "CreateLoadBalancerV2", "CreateTargetGroupV2", "RegisterTargetsV2",
     "CreateListenerV2", "DescribeTags", "RegisterInstancesWithLoadBalancer",
     "DescribeTargetGroupsV2", "AddTagsV2", "ChangeResourceRecordSets",
     "ListHostedZonesByName", "AuthorizeSecurityGroupIngress",
     "CreateSecurityGroup", "DeleteSecurityGroup", "DescribeSecurityGroups",
     "RevokeSecurityGroupIngress", "DescribeSubnets", "CreateTags"}

To(client, op) == [client |-> client, op |-> op]

\* Mutant: DescribeLoadBalancersV2 calls the classic client.
Delegate_V2OnClassic(m) ==
    CASE m = "ApplySecurityGroupsToLoadBalancer" ->
            To("elbClient", "ApplySecurityGroupsToLoadBalancer")
      [] m = "ConfigureHealthCheck" -> To("elbClient", "ConfigureHealthCheck")
      [] m = "CreateLoadBalancer" -> To("elbClient", "CreateLoadBalancer")
      [] m = "CreateLoadBalancerListeners" ->
            To("elbClient", "CreateLoadBalancerListeners")
      [] m = "DeleteLoadBalancerListeners" ->
            To("elbClient", "DeleteLoadBalancerListeners")
      [] m = "DeregisterInstancesFromLoadBalancer" ->
            To("elbClient", "DeregisterInstancesFromLoadBalancer")
      [] m = "DescribeLoadBalancers" -> To("elbClient", "DescribeLoadBalancers")
      [] m = "DescribeLoadBalancersV2" -> To("elbClient", "DescribeLoadBalancers")
      [] m = "DeleteLoadBalancerV2" -> To("elbv2Client", "DeleteLoadBalancer")
      [] m = "CreateLoadBalancerV2" -> To("elbv2Client", "CreateLoadBalancer")
      [] m = "CreateTargetGroupV2" -> To("elbv2Client", "CreateTargetGroup")
      [] m = "RegisterTargetsV2" -> To("elbv2Client", "RegisterTargets")
      [] m = "CreateListenerV2" -> To("elbv2Client", "CreateListener")
      [] m = "DescribeTags" -> To("elbClient", "DescribeTags")
      [] m = "RegisterInstancesWithLoadBalancer" ->
            To("elbClient", "RegisterInstancesWithLoadBalancer")
      [] m = "DescribeTargetGroupsV2" -> To("elbv2Client", "DescribeTargetGroups")
      [] m = "AddTagsV2" -> To("elbv2Client", "AddTags")
      [] m = "ChangeResourceRecordSets" ->
            To("route53Client", "ChangeResourceRecordSets")
      [] m = "ListHostedZonesByName" -> To("route53Client", "ListHostedZonesByName")
      [] m = "AuthorizeSecurityGroupIngress" ->
            To("ec2Client", "AuthorizeSecurityGroupIngress")
      [] m = "CreateSecurityGroup" -> To("ec2Client", "CreateSecurityGroup")
      [] m = "DeleteSecurityGroup" -> To("ec2Client", "DeleteSecurityGroup")
      [] m = "DescribeSecurityGroups" -> To("ec2Client", "DescribeSecurityGroups")
      [] m = "RevokeSecurityGroupIngress" ->
            To("ec2Client", "RevokeSecurityGroupIngress")
      [] m = "DescribeSubnets" -> To("ec2Client", "DescribeSubnets")
      [] m = "CreateTags" -> To("ec2Client", "CreateTags")

\* The body of each method: the field of AwsClient it calls, and the
\* operation it calls on it.
Delegate(m) ==
    CASE m = "ApplySecurityGroupsToLoadBalancer" ->
            To("elbClient", "ApplySecurityGroupsToLoadBalancer")
      [] m = "ConfigureHealthCheck" -> To("elbClient", "ConfigureHealthCheck")
      [] m = "CreateLoadBalancer" -> To("elbClient", "CreateLoadBalancer")
      [] m = "CreateLoadBalancerListeners" ->
            To("elbClient", "CreateLoadBalancerListeners")
      [] m = "DeleteLoadBalancerListeners" ->
            To("elbClient", "DeleteLoadBalancerListeners")
      [] m = "DeregisterInstancesFromLoadBalancer" ->
            To("elbClient", "DeregisterInstancesFromLoadBalancer")
      [] m = "DescribeLoadBalancers" -> To("elbClient", "DescribeLoadBalancers")
      [] m = "DescribeLoadBalancersV2" -> To("elbv2Client", "DescribeLoadBalancers")
      [] m = "DeleteLoadBalancerV2" -> To("elbv2Client", "DeleteLoadBalancer")
      [] m = "CreateLoadBalancerV2" -> To("elbv2Client", "CreateLoadBalancer")
      [] m = "CreateTargetGroupV2" -> To("elbv2Client", "CreateTargetGroup")
      [] m = "RegisterTargetsV2" -> To("elbv2Client", "RegisterTargets")
      [] m = "CreateListenerV2" -> To("elbv2Client", "CreateListener")
      [] m = "DescribeTags" -> To("elbClient", "DescribeTags")
      [] m = "RegisterInstancesWithLoadBalancer" ->
            To("elbClient", "RegisterInstancesWithLoadBalancer")
      [] m = "DescribeTargetGroupsV2" -> To("elbv2Client", "DescribeTargetGroups")
      [] m = "AddTagsV2" -> To("elbv2Client", "AddTags")
      [] m = "ChangeResourceRecordSets" ->
            To("route53Client", "ChangeResourceRecordSets")
      [] m = "ListHostedZonesByName" -> To("route53Client", "ListHostedZonesByName")
      [] m = "AuthorizeSecurityGroupIngress" ->
            To("ec2Client", "AuthorizeSecurityGroupIngress")
      [] m = "CreateSecurityGroup" -> To("ec2Client", "CreateSecurityGroup")
      [] m = "DeleteSecurityGroup" -> To("ec2Client", "DeleteSecurityGroup")
      [] m = "DescribeSecurityGroups" -> To("ec2Client", "DescribeSecurityGroups")
      [] m = "RevokeSecurityGroupIngress" ->
            To("ec2Client", "RevokeSecurityGroupIngress")
      [] m = "DescribeSubnets" -> To("ec2Client", "DescribeSubnets")
      [] m = "CreateTags" -> To("ec2Client", "CreateTags")

\* Input and output structures of the remote API, by name.
RemoteInputs == {"in1", "in2"}

RemoteOutputs == {"out1", "out2"}

RemoteErr == Err("RemoteError", "", "")

\* What a remote call answers: an output structure and an error, either
\* of which the SDK may set.
RemoteResponses == [out : RemoteOutputs, err : {NilErr, RemoteErr}]

\* The sessions the facade of the facade run was built from.
FacadeSessions ==
    {[Region |-> "us-east-1", Credentials |-> NoCredentials],
     [Region |-> "us-east-1",
      Credentials |-> NewStaticCredentials(CredPool[1], CredPool[2], "token")]}

\* A method of AwsClient is invoked with input i: `return c.<client>.<op>(i)`.
Passthrough(m, i) ==
    /\ facade # NilClient
    /\ \E resp \in RemoteResponses :
        /\ response' = resp
        /\ result' = resp
    /\ invoked' = [method |-> m, input |-> i]
    /\ requests' = <<[handle |-> facade[Delegate(m).client],
                      op |-> Delegate(m).op, input |-> i]>>
    /\ UNCHANGED <<facade, resolverVars>>

ResolverInit ==
    /\ pc = [p \in Procs |-> "idle"]
    /\ input = [p \in Procs |-> NoInput]
    /\ secret = [p \in Procs |-> NoResponse]
    /\ args = [p \in Procs |-> NoArgs]
    /\ awsConfig = [p \in Procs |-> NoConfig]
    /\ ret = [p \in Procs |-> Pending]
    /\ trace = [p \in Procs |-> NoTrace]
    /\ envAtStart = [p \in Procs |-> NoEnv]
    /\ envAtSession = [p \in Procs |-> NoEnv]

FacadeIdle ==
    /\ facade = NilClient
    /\ invoked = [method |-> "", input |-> ""]
    /\ requests = <<>>
    /\ response = [out |-> "", err |-> NilErr]
    /\ result = [out |-> "", err |-> NilErr]

\* A sequential run: one goroutine calls GetAWSClient, MaxCalls times.
Init ==
    /\ ResolverInit
    /\ env \in InitialEnvs
    /\ stored \in SecretData
    /\ inputs = [p \in Procs |-> "any"]
    /\ callsLeft = [p \in Procs |-> IF p = "g1" THEN MaxCalls ELSE 0]
    /\ FacadeIdle

\* A concurrent run: two goroutines each call GetAWSClient once, with
\* credentials of their own, and no synchronization.
ConcurrentInit ==
    /\ ResolverInit
    /\ env \in InitialEnvs
    /\ stored \in SecretData
    /\ inputs = [p \in Procs |-> "own"]
    /\ callsLeft = [p \in Procs |-> 1]
    /\ FacadeIdle

Next ==
    \E p \in Procs :
        \/ GetAWSClient(p)
        \/ KubeGet(p)
        \/ NewClient(p)
        \/ SetenvAccessKeyID(p)
        \/ SetenvSecretAccessKey(p)
        \/ NewSession(p)
        \/ Return(p)

Spec == Init /\ [][Next]_vars

\* The steps of the concurrent run: each goroutine's one call, up to its
\* return statement, so that what each call did stays in view.
ConcurrentNext ==
    \E p \in Procs :
        \/ GetAWSClient(p)
        \/ KubeGet(p)
        \/ NewClient(p)
        \/ SetenvAccessKeyID(p)
        \/ SetenvSecretAccessKey(p)
        \/ NewSession(p)

ConcurrentSpec == ConcurrentInit /\ [][ConcurrentNext]_vars

\* A facade run: a caller holds an AwsClient and invokes its methods.
FacadeInit ==
    /\ ResolverInit
    /\ env = [n \in EnvNames |-> Unset]
    /\ stored = NoData
    /\ inputs = [p \in Procs |-> "any"]
    /\ callsLeft = [p \in Procs |-> 0]
    /\ facade \in {AwsClientOf(s) : s \in FacadeSessions}
    /\ invoked = [method |-> "", input |-> ""]
    /\ requests = <<>>
    /\ response = [out |-> "", err |-> NilErr]
    /\ result = [out |-> "", err |-> NilErr]

FacadeNext == \E m \in Methods, i \in RemoteInputs : Passthrough(m, i)

FacadeSpec == FacadeInit /\ [][FacadeNext]_vars

\* ------------------------------------------------------------ claims

\* The (key, secret) pair of NewClient's arguments, as an environment.
PairOf(a) ==
    [n \in EnvNames |-> IF n = "AWS_ACCESS_KEY_ID" THEN a.accessID ELSE a.accessSecret]

ConfigurationErrors ==
    {"getAWSClient:NoRegion", "getAWSClient: NoAwsCredentials or Secret"}

RequiredFields == {"aws_access_key_id", "aws_secret_access_key"}

\* The input names a secret: both the name and the namespace are set.
NamesSecret(in) == in.SecretName # "" /\ in.NameSpace # ""

\* Inline access key empty, inline secret not.
PartialInline(in) == in.AwsCredsSecretIDKey = "" /\ in.AwsCredsSecretAccessKey # ""

\* p's call has returned with the error of kind k and no client.
FailedWith(p, kinds) ==
    /\ pc[p] = "done"
    /\ ret[p].client = NilClient
    /\ ret[p].err.kind \in kinds

\* p's call is in NewClient or has returned from it, having entered it once.
InNewClientOnce(p) ==
    /\ pc[p] \in {"NewClient", "SetenvID", "SetenvSecret", "NewSession", "done"}
    /\ trace[p].newClients = (IF pc[p] = "NewClient" THEN 0 ELSE 1)

\* C1: a call whose input has an empty region, whatever its other fields,
\* has returned no client and a configuration error, having issued no secret
\* lookup, not entered NewClient, written neither environment variable and
\* created no session.
C1_NoRegionFailsFirst ==
    \A p \in Procs :
        (pc[p] # "idle" /\ input[p].AwsRegion = "") =>
            /\ FailedWith(p, ConfigurationErrors)
            /\ trace[p] = NoTrace
            /\ env = envAtStart[p]
            /\ awsConfig[p] = NoConfig

C1_Witness ==
    \E p \in Procs :
        /\ pc[p] = "done"
        /\ input[p].AwsRegion = ""
        /\ input[p].AwsCredsSecretIDKey # ""
        /\ input[p].AwsCredsSecretAccessKey # ""
        /\ input[p].AwsToken # ""
        /\ NamesSecret(input[p])
        /\ ret[p].err.kind = "getAWSClient:NoRegion"

\* C2: a call with a region and a secret reference issues at most one
\* lookup; when the record it got lacks a required field the call has failed
\* with the missing-key error naming a field the record lacks, after exactly
\* one lookup and nothing else; a record with only aws_access_key_id gives
\* the error naming aws_secret_access_key.
C2_MissingFieldNamed ==
    \A p \in Procs :
        (pc[p] # "idle" /\ input[p].AwsRegion # "" /\ NamesSecret(input[p])) =>
            /\ trace[p].lookups <= 1
            /\ (/\ trace[p].lookups = 1
                /\ secret[p].err = NilErr
                /\ ~(RequiredFields \subseteq DOMAIN secret[p].Data)) =>
                    /\ FailedWith(p, {"AWS credentials secret did not contain key"})
                    /\ ret[p].err.key \in RequiredFields \ DOMAIN secret[p].Data
                    /\ ret[p].err.secret = input[p].SecretName
                    /\ trace[p] = [NoTrace EXCEPT !.lookups = 1]
                    /\ (DOMAIN secret[p].Data = {"aws_access_key_id"} =>
                            ret[p].err.key = "aws_secret_access_key")

C2_Witness ==
    \E p \in Procs :
        /\ pc[p] = "done"
        /\ input[p].SecretName = "x"
        /\ input[p].NameSpace = "y"
        /\ input[p].AwsRegion = "us-east-1"
        /\ trace[p].lookups = 1
        /\ secret[p].err = NilErr
        /\ DOMAIN secret[p].Data = {"aws_access_key_id"}
        /\ ret[p].err.key = "aws_secret_access_key"

\* C3, as stated: a call whose inline access key is empty and whose inline
\* secret is not issues no secret lookup and creates no session, and fails
\* with a configuration error, whatever its other fields.
C3_AsStated ==
    \A p \in Procs :
        (pc[p] # "idle" /\ PartialInline(input[p])) =>
            /\ trace[p].lookups = 0
            /\ trace[p].sessions = 0
            /\ pc[p] = "done" => FailedWith(p, ConfigurationErrors)

\* C3, amended: a call whose inline access key is empty and whose inline
\* secret is not, and whose input has an empty region or names no secret,
\* has failed with a configuration error without any call made, whatever
\* its token.
C3_PartialInlineRejected ==
    \A p \in Procs :
        (/\ pc[p] # "idle"
         /\ PartialInline(input[p])
         /\ (input[p].AwsRegion = "" \/ ~NamesSecret(input[p]))) =>
            /\ FailedWith(p, ConfigurationErrors)
            /\ trace[p] = NoTrace
            /\ env = envAtStart[p]

C3_Witness ==
    \E p \in Procs :
        /\ pc[p] = "done"
        /\ PartialInline(input[p])
        /\ input[p].AwsRegion # ""
        /\ input[p].AwsToken # ""
        /\ input[p].SecretName # ""
        /\ input[p].NameSpace = ""
        /\ ret[p].err.kind = "getAWSClient: NoAwsCredentials or Secret"

\* C4: once the lookup of a call with a region and a secret reference has
\* returned a record with both fields, NewClient is entered once, with the
\* two values of the record, the input's token and the input's region,
\* whatever the inline key and secret are.
C4_SecretTakesPrecedence ==
    \A p \in Procs :
        (/\ pc[p] # "idle"
         /\ input[p].AwsRegion # ""
         /\ NamesSecret(input[p])
         /\ trace[p].lookups = 1
         /\ secret[p].err = NilErr
         /\ RequiredFields \subseteq DOMAIN secret[p].Data) =>
            /\ InNewClientOnce(p)
            /\ args[p] = [accessID |-> secret[p].Data["aws_access_key_id"],
                          accessSecret |-> secret[p].Data["aws_secret_access_key"],
                          token |-> input[p].AwsToken,
                          region |-> input[p].AwsRegion]

C4_Witness ==
    \E p \in Procs :
        /\ pc[p] = "done"
        /\ ret[p].client # NilClient
        /\ NamesSecret(input[p])
        /\ PartialInline(input[p])
        /\ trace[p].lookups = 1
        /\ args[p].accessID # ""
        /\ args[p].accessSecret # input[p].AwsCredsSecretAccessKey
        /\ args[p].accessSecret = secret[p].Data["aws_secret_access_key"]

\* C5: a call with a region, no secret reference and inline credentials
\* other than (empty key, non-empty secret) issues no lookup and enters
\* NewClient once with the inline key, inline secret, token and region as
\* given; an empty inline secret, or both empty, is not rejected.
C5_InlinePassedUnchanged ==
    \A p \in Procs :
        (/\ pc[p] # "idle"
         /\ input[p].AwsRegion # ""
         /\ ~NamesSecret(input[p])
         /\ ~PartialInline(input[p])) =>
            /\ trace[p].lookups = 0
            /\ InNewClientOnce(p)
            /\ args[p] = [accessID |-> input[p].AwsCredsSecretIDKey,
                          accessSecret |-> input[p].AwsCredsSecretAccessKey,
                          token |-> input[p].AwsToken,
                          region |-> input[p].AwsRegion]
            /\ pc[p] = "done" =>
                    /\ trace[p].sessions = 1
                    /\ ret[p].err.kind \in {"nil", "NewSessionError"}

C5_Witness ==
    \E p \in Procs :
        /\ pc[p] = "done"
        /\ ret[p].client # NilClient
        /\ ~NamesSecret(input[p])
        /\ input[p].AwsCredsSecretIDKey = ""
        /\ input[p].AwsCredsSecretAccessKey = ""
        /\ input[p].AwsToken # ""
        /\ trace[p].lookups = 0
        /\ trace[p].newClients = 1

\* C6: in a sequential run, a call that has entered NewClient with an empty
\* token attaches no credentials to the session config, and from the moment
\* before its session is created the environment holds the call's access
\* key and secret; with a non-empty token the session config holds the
\* static credentials (access key, secret, token) and both environment
\* variables are as they were when the call began.
C6_EnvironmentOnlyWithoutToken ==
    \A p \in Procs :
        (pc[p] # "idle" /\ trace[p].newClients = 1) =>
            /\ awsConfig[p].Region = args[p].region
            /\ IF args[p].token = ""
               THEN /\ awsConfig[p].Credentials = NoCredentials
                    /\ pc[p] \in {"NewSession", "done"} =>
                            /\ trace[p].setenvs = 2
                            /\ env = PairOf(args[p])
                    /\ trace[p].sessions = 1 => envAtSession[p] = PairOf(args[p])
               ELSE /\ awsConfig[p].Credentials =
                            [static |-> TRUE, id |-> args[p].accessID,
                             secret |-> args[p].accessSecret,
                             token |-> args[p].token]
                    /\ trace[p].setenvs = 0
                    /\ env = envAtStart[p]

C6_Witness ==
    \E p \in Procs :
        /\ pc[p] = "done"
        /\ trace[p].sessions = 1
        /\ args[p].token = ""
        /\ args[p].accessID # ""
        /\ args[p].accessSecret # ""
        /\ envAtStart[p] # PairOf(args[p])
        /\ envAtStart[p]["AWS_ACCESS_KEY_ID"] \in Creds \ {""}
        /\ envAtSession[p] = PairOf(args[p])

\* C7: in a concurrent run, a resolution with a token has its session built
\* from static credentials of its own arguments and writes no environment
\* variable; a resolution without a token creates its session with, in each
\* environment variable, its own value or the value another token-less
\* resolution has written there.
C7_EnvironmentIsTheSharedState ==
    \A p \in Procs :
        (pc[p] = "done" /\ trace[p].sessions = 1) =>
            IF args[p].token # ""
            THEN /\ awsConfig[p].Credentials =
                        [static |-> TRUE, id |-> args[p].accessID,
                         secret |-> args[p].accessSecret, token |-> args[p].token]
                 /\ trace[p].setenvs = 0
            ELSE /\ awsConfig[p].Credentials = NoCredentials
                 /\ trace[p].setenvs = 2
                 /\ \/ envAtSession[p]["AWS_ACCESS_KEY_ID"] = args[p].accessID
                    \/ \E q \in Procs \ {p} :
                        /\ args[q].token = ""
                        /\ trace[q].setenvs >= 1
                        /\ envAtSession[p]["AWS_ACCESS_KEY_ID"] = args[q].accessID
                 /\ \/ envAtSession[p]["AWS_SECRET_ACCESS_KEY"] = args[p].accessSecret
                    \/ \E q \in Procs \ {p} :
                        /\ args[q].token = ""
                        /\ trace[q].setenvs = 2
                        /\ envAtSession[p]["AWS_SECRET_ACCESS_KEY"] = args[q].accessSecret

\* A session created while the environment holds a mixed pair: the key of
\* one resolution, the secret of the other.
C7_Witness ==
    \E p \in Procs : \E q \in Procs \ {p} :
        /\ pc[p] = "done"
        /\ trace[p].sessions = 1
        /\ ret[p].client # NilClient
        /\ args[p].token = ""
        /\ args[q].token = ""
        /\ args[p].accessID # args[q].accessID
        /\ args[p].accessSecret # args[q].accessSecret
        /\ envAtSession[p]["AWS_ACCESS_KEY_ID"] = args[p].accessID
        /\ envAtSession[p]["AWS_SECRET_ACCESS_KEY"] = args[q].accessSecret

V2Methods ==
    {"DescribeLoadBalancersV2", "DeleteLoadBalancerV2", "CreateLoadBalancerV2",
     "CreateTargetGroupV2", "RegisterTargetsV2", "CreateListenerV2",
     "DescribeTargetGroupsV2", "AddTagsV2"}

Route53Methods == {"ChangeResourceRecordSets", "ListHostedZonesByName"}

EC2Methods ==
    {"AuthorizeSecurityGroupIngress", "CreateSecurityGroup", "DeleteSecurityGroup",
     "DescribeSecurityGroups", "RevokeSecurityGroupIngress", "DescribeSubnets",
     "CreateTags"}

\* The service a method belongs to.
ServiceOf(m) ==
    IF m \in V2Methods THEN "elbv2"
    ELSE IF m \in Route53Methods THEN "route53"
    ELSE IF m \in EC2Methods THEN "ec2"
    ELSE "elb"

\* The handle of the facade for a service.
HandleFor(api) ==
    CHOOSE h \in {facade[f] : f \in DOMAIN facade} : h.api = api

\* C8: an invocation of a facade method has issued exactly one request, on
\* the facade's handle of the service the method belongs to, for the
\* operation the method is named for (the name less its V2 suffix), with
\* the caller's input, and has returned the output and error the remote
\* call answered, also when that is an error; the facade's handles are
\* never changed.
C8_OneRequestPerCall ==
    /\ [](invoked.method # "" =>
            /\ Len(requests) = 1
            /\ requests[1].handle.api = ServiceOf(invoked.method)
            /\ requests[1].handle = HandleFor(ServiceOf(invoked.method))
            /\ IF invoked.method \in V2Methods
               THEN requests[1].op \o "V2" = invoked.method
               ELSE requests[1].op = invoked.method
            /\ requests[1].input = invoked.input
            /\ result = response)
    /\ [][facade' = facade]_vars

C8_Witness ==
    /\ invoked.method = "DescribeLoadBalancersV2"
    /\ Len(requests) = 1
    /\ requests[1].handle.api = "elbv2"
    /\ requests[1].op = "DescribeLoadBalancers"
    /\ response.err # NilErr
    /\ result = response

\* C9: in every outcome of a call exactly one of client and error is
\* non-nil; a call that has returned without entering NewClient returned no
\* client and an error, with both environment variables as they were when it
\* began; a failed lookup is the call's failure, and NewClient is not
\* entered after it.
C9_EarlyFailureLeavesNothing ==
    \A p \in Procs :
        /\ pc[p] = "done" =>
                /\ (ret[p].client = NilClient) # (ret[p].err = NilErr)
                /\ trace[p].newClients = 0 =>
                        /\ ret[p].client = NilClient
                        /\ ret[p].err # NilErr
                        /\ env = envAtStart[p]
                        /\ trace[p].setenvs = 0
                        /\ trace[p].sessions = 0
        /\ (pc[p] # "idle" /\ trace[p].lookups = 1 /\ secret[p].err # NilErr) =>
                /\ pc[p] = "done"
                /\ ret[p] = [client |-> NilClient, err |-> secret[p].err]
                /\ trace[p].newClients = 0

C9_Witness ==
    \E p \in Procs :
        /\ pc[p] = "done"
        /\ trace[p].lookups = 1
        /\ secret[p].err # NilErr
        /\ input[p].AwsCredsSecretIDKey # ""
        /\ input[p].AwsCredsSecretAccessKey # ""
        /\ ret[p].err = secret[p].err
        /\ env = envAtStart[p]
        /\ env["AWS_ACCESS_KEY_ID"] \in Creds \ {""}

\* C10: a call with a region and exactly one of secret name and namespace
\* set issues no lookup: it fails on the empty-key/non-empty-secret test,
\* or enters NewClient with the inline values.
C10_HalfReferenceIsInline ==
    \A p \in Procs :
        (/\ pc[p] # "idle"
         /\ input[p].AwsRegion # ""
         /\ (input[p].SecretName # "") # (input[p].NameSpace # "")) =>
            /\ trace[p].lookups = 0
            /\ pc[p] # "kubeGet"
            /\ IF PartialInline(input[p])
               THEN /\ FailedWith(p, {"getAWSClient: NoAwsCredentials or Secret"})
                    /\ trace[p].newClients = 0
               ELSE /\ InNewClientOnce(p)
                    /\ args[p].accessID = input[p].AwsCredsSecretIDKey
                    /\ args[p].accessSecret = input[p].AwsCredsSecretAccessKey

C10_Witness ==
    \E p \in Procs :
        /\ pc[p] = "done"
        /\ input[p].SecretName # ""
        /\ input[p].NameSpace = ""
        /\ input[p].AwsCredsSecretIDKey # ""
        /\ ret[p].client # NilClient
        /\ trace[p].lookups = 0
        /\ args[p].accessID = input[p].AwsCredsSecretIDKey

====
